---------------------------- MODULE Spec2Model ----------------------------
(***************************************************************************)
(* A model of fuzz/scripts/extract_corpus.py: the snippet extractor        *)
(* (extract_snippets), the fingerprint (hash_content) and the corpus       *)
(* builder (main).                                                         *)
(*                                                                         *)
(* Text is modelled character by character: a string is a sequence of      *)
(* one-character strings, so that the regular expressions, str.replace and *)
(* str.strip are computed as Python computes them.                         *)
(***************************************************************************)
EXTENDS Integers, Sequences, FiniteSets, TLC

VARIABLES
    pc,            \* main(): the statement about to run
    test_dir,      \* TEST_DIR: [exists, files], files a function name -> text
    corpus,        \* CORPUS_DIR: directory name -> [exists, files]
    corpus0,       \* corpus as it was when the current run of main() started
    todo,          \* main(): the files the loop of line 82 has still to read
    all_snippets,  \* main(): all_snippets
    seen,          \* main(): seen
    unique,        \* main(): unique, a sequence of <<h, snippet>>
    cursor,        \* main(): position of the loops of lines 72, 92 and 102-104
    console,       \* what print() has written in the current run
    written,       \* every write_text of the current run: [dir, name, text]
    runs,          \* "first" or "second": which run of main() this is
    items,         \* extractor alone: the pieces its text was put together from
    content,       \* extract_snippets: content
    snippets,      \* extract_snippets: the returned list
    recode         \* extractor alone: the replacements applied again to snippets

vars == <<pc, test_dir, corpus, corpus0, todo, all_snippets, seen, unique,
          cursor, console, written, runs, items, content, snippets, recode>>

-----------------------------------------------------------------------------
(* Characters.                                                             *)

BS == "\\"
DQ == "\""
NL == "\n"
TAB == "\t"
CR == "\r"
SP == " "

\* What str.strip() (line 94) and the pattern's \s (lines 41, 59) take for
\* white space, among the characters of the model.
IsSpace(c) == c \in {SP, TAB, NL, CR}

\* s[i..] starts with lit.
StartsWithAt(s, i, lit) ==
    /\ i + Len(lit) - 1 <= Len(s)
    /\ \A k \in 1..Len(lit) : s[i + k - 1] = lit[k]

\* s[from..to-1].
Slice(s, from, to) == [k \in 1..(to - from) |-> s[from + k - 1]]

RECURSIVE ReplaceFrom(_, _, _, _)
ReplaceFrom(s, i, old, new) ==
    IF i > Len(s) THEN <<>>
    ELSE IF StartsWithAt(s, i, old)
         THEN new \o ReplaceFrom(s, i + Len(old), old, new)
         ELSE <<s[i]>> \o ReplaceFrom(s, i + 1, old, new)

RECURSIVE ReplaceFirstFrom(_, _, _, _)
ReplaceFirstFrom(s, i, old, new) ==
    IF i > Len(s) THEN <<>>
    ELSE IF StartsWithAt(s, i, old)
         THEN new \o Slice(s, i + Len(old), Len(s) + 1)
         ELSE <<s[i]>> \o ReplaceFirstFrom(s, i + 1, old, new)

ReplaceFirst(s, old, new) == ReplaceFirstFrom(s, 1, old, new)

\* str.replace(old, new): every non-overlapping occurrence, left to right.
Replace(s, old, new) == ReplaceFrom(s, 1, old, new)

RECURSIVE Flatten(_)
Flatten(ss) == IF ss = <<>> THEN <<>> ELSE Head(ss) \o Flatten(Tail(ss))

TokenSeqs(T, n) == UNION {[1..k -> T] : k \in 0..n}

Contains(s, lit) == \E i \in 1..Len(s) : StartsWithAt(s, i, lit)

-----------------------------------------------------------------------------
(* extract_snippets.                                                       *)

UnescapeBackslashFirst(code) ==
    Replace(Replace(Replace(Replace(Replace(code,
        <<BS, BS>>, <<BS>>),
        <<BS, DQ>>, <<DQ>>),
        <<BS, "n">>, <<NL>>),
        <<BS, "t">>, <<TAB>>),
        <<BS, "r">>, <<CR>>)

\* Lines 23-27 (and 33-37, 43-47): the five replacements, in the code's order.
Unescape(code) ==
    Replace(Replace(Replace(Replace(Replace(code,
        <<BS, DQ>>, <<DQ>>),
        <<BS, "n">>, <<NL>>),
        <<BS, "t">>, <<TAB>>),
        <<BS, "r">>, <<CR>>),
        <<BS, BS>>, <<BS>>)

EVAL == <<"e", "v", "a", "l">>
EVAL_RESULT == <<"e", "v", "a", "l", "_", "r", "e", "s", "u", "l", "t">>
THROWS_ERROR == <<"t", "h", "r", "o", "w", "s", "_", "e", "r", "r", "o", "r">>

\* The six patterns in the order the function scans them (lines 20, 31, 41,
\* 51, 55, 59): the call's name, whether the argument is a raw string, and
\* whether the pattern ends with  \s*,  instead of  \) .
Patterns == <<
    [name |-> EVAL,         raw |-> FALSE, comma |-> FALSE],
    [name |-> EVAL_RESULT,  raw |-> FALSE, comma |-> FALSE],
    [name |-> THROWS_ERROR, raw |-> FALSE, comma |-> TRUE],
    [name |-> EVAL,         raw |-> TRUE,  comma |-> FALSE],
    [name |-> EVAL_RESULT,  raw |-> TRUE,  comma |-> FALSE],
    [name |-> THROWS_ERROR, raw |-> TRUE,  comma |-> TRUE] >>

\* The literal a pattern starts with:  name\("  or  name\(r#" .
Opener(pat) ==
    pat.name \o (IF pat.raw THEN <<"(", "r", "#", DQ>> ELSE <<"(", DQ>>)

RECURSIVE SkipSpace(_, _)
\* \s* from p: greedy; the comma that follows is no white space, so giving
\* white space back never helps.
SkipSpace(c, p) ==
    IF p <= Len(c) /\ IsSpace(c[p]) THEN SkipSpace(c, p + 1) ELSE p

\* What follows the group, tried at p: 0 when it does not match, else the
\* position after the match.  Plain:  "\)  or  "\s*,  ; raw:  "#\)  or  "#\s*, .
CloserEnd(pat, c, p) ==
    LET q == IF pat.raw THEN p + 2 ELSE p + 1
        quoted == IF pat.raw THEN StartsWithAt(c, p, <<DQ, "#">>)
                  ELSE StartsWithAt(c, p, <<DQ>>)
    IN  IF ~quoted THEN 0
        ELSE IF pat.comma
             THEN LET r == SkipSpace(c, q)
                  IN  IF r <= Len(c) /\ c[r] = "," THEN r + 1 ELSE 0
             ELSE IF q <= Len(c) /\ c[q] = ")" THEN q + 1 ELSE 0

RECURSIVE QuotedEnd(_, _)
\* (?:[^"\\]|\\.)* from p: where the greedy repetition stops.  The two
\* alternatives start with different characters and neither starts with a
\* quote, so the closing quote can only match where the repetition stops:
\* backtracking finds nothing else.  The dot matches no line break.
QuotedEnd(c, p) ==
    IF p > Len(c) THEN p
    ELSE IF c[p] = DQ THEN p
    ELSE IF c[p] = BS
         THEN IF p + 1 <= Len(c) /\ c[p + 1] # NL THEN QuotedEnd(c, p + 2) ELSE p
         ELSE QuotedEnd(c, p + 1)

RECURSIVE LazyEndNoDotAll(_, _, _)
LazyEndNoDotAll(pat, c, p) ==
    IF p > Len(c) THEN 0
    ELSE IF CloserEnd(pat, c, p) # 0 THEN p
    ELSE IF c[p] = NL THEN 0
    ELSE LazyEndNoDotAll(pat, c, p + 1)

RECURSIVE LazyEnd(_, _, _)
\* (.*?) with re.DOTALL from p: the first position at or after p where the
\* rest of the pattern matches; 0 when there is none.
LazyEnd(pat, c, p) ==
    IF p > Len(c) THEN 0
    ELSE IF CloserEnd(pat, c, p) # 0 THEN p
    ELSE LazyEnd(pat, c, p + 1)

\* The end of group 1 when the group starts at p (0: no match from here).
GroupEnd(pat, c, p) ==
    IF pat.raw THEN LazyEnd(pat, c, p)
    ELSE LET q == QuotedEnd(c, p) IN IF CloserEnd(pat, c, q) # 0 THEN q ELSE 0

\* The pattern tried at position i of c: ok, group 1 as [from, to), and the
\* position after the match.
MatchAt(pat, c, i) ==
    IF ~StartsWithAt(c, i, Opener(pat))
    THEN [ok |-> FALSE, from |-> 0, to |-> 0, end |-> 0]
    ELSE LET from == i + Len(Opener(pat))
             to == GroupEnd(pat, c, from)
         IN  IF to = 0
             THEN [ok |-> FALSE, from |-> 0, to |-> 0, end |-> 0]
             ELSE [ok |-> TRUE, from |-> from, to |-> to,
                   end |-> CloserEnd(pat, c, to)]

RECURSIVE FindIterFrom(_, _, _)
FindIterFrom(pat, c, i) ==
    IF i > Len(c) THEN <<>>
    ELSE LET m == MatchAt(pat, c, i)
         IN  IF m.ok THEN <<m>> \o FindIterFrom(pat, c, m.end)
             ELSE FindIterFrom(pat, c, i + 1)

\* re.finditer(pattern, content): the leftmost match, then the leftmost match
\* after it, and so on.
FindIter(pat, c) == FindIterFrom(pat, c, 1)

\* The snippets one pattern's loop appends (lines 20-28, ..., 59-60).
PatternSnippets(pat, c) ==
    LET ms == FindIter(pat, c)
    IN  [k \in 1..Len(ms) |->
            IF pat.raw THEN Slice(c, ms[k].from, ms[k].to)
            ELSE Unescape(Slice(c, ms[k].from, ms[k].to))]

extract_snippets_raw_first(c) ==
    PatternSnippets(Patterns[4], c) \o PatternSnippets(Patterns[5], c)
        \o PatternSnippets(Patterns[6], c) \o PatternSnippets(Patterns[1], c)
        \o PatternSnippets(Patterns[2], c) \o PatternSnippets(Patterns[3], c)

\* Lines 14-62.
extract_snippets(c) ==
    PatternSnippets(Patterns[1], c) \o PatternSnippets(Patterns[2], c)
        \o PatternSnippets(Patterns[3], c) \o PatternSnippets(Patterns[4], c)
        \o PatternSnippets(Patterns[5], c) \o PatternSnippets(Patterns[6], c)

-----------------------------------------------------------------------------
(* hash_content, the file system, and the helpers of main().               *)

Lower == <<"a", "b", "c", "d", "e", "f", "g", "h", "i", "j", "k", "l", "m",
           "n", "o", "p", "q", "r", "s", "t", "u", "v", "w", "x", "y", "z">>
Upper == <<"A", "B", "C", "D", "E", "F", "G", "H", "I", "J", "K", "L", "M",
           "N", "O", "P", "Q", "R", "S", "T", "U", "V", "W", "X", "Y", "Z">>
Digits == <<"0", "1", "2", "3", "4", "5", "6", "7", "8", "9">>
HexDigits == <<"0", "1", "2", "3", "4", "5", "6", "7", "8", "9",
               "a", "b", "c", "d", "e", "f">>

IndexIn(seq, c) == CHOOSE i \in 1..Len(seq) : seq[i] = c

Punctuation ==
    (TAB :> 9) @@ (NL :> 10) @@ (CR :> 13) @@ (SP :> 32) @@ (DQ :> 34)
        @@ ("#" :> 35) @@ ("(" :> 40) @@ (")" :> 41) @@ ("+" :> 43)
        @@ ("," :> 44) @@ ("." :> 46) @@ (";" :> 59) @@ ("=" :> 61)
        @@ (BS :> 92) @@ ("_" :> 95)

Range(seq) == {seq[i] : i \in 1..Len(seq)}

\* The byte str.encode() gives a character (all characters here are ASCII).
Ascii ==
    [c \in Range(Lower) \cup Range(Upper) \cup Range(Digits) \cup DOMAIN Punctuation |->
        IF c \in Range(Lower) THEN 96 + IndexIn(Lower, c)
        ELSE IF c \in Range(Upper) THEN 64 + IndexIn(Upper, c)
        ELSE IF c \in Range(Digits) THEN 47 + IndexIn(Digits, c)
        ELSE Punctuation[c]]

\* The length of a fingerprint: hexdigest()[:16].
FingerprintLen == 16

HexByte(n) == <<HexDigits[(n \div 16) + 1], HexDigits[(n % 16) + 1]>>

\* Line 67.  SHA-256 itself is not computed.  What the builder uses of it is
\* kept: the fingerprint is a function of the text alone, it is 16
\* hexadecimal digits long, and different texts of the corpus get different
\* fingerprints.  Here it is the first 16 digits of the text's bytes in
\* hexadecimal, padded with zeros, which tells apart all texts of up to 8
\* characters (every snippet of the model is that short).
hash_content(text) ==
    LET hex == Flatten([k \in 1..Len(text) |-> HexByte(Ascii[text[k]])])
                   \o [k \in 1..FingerprintLen |-> "0"]
    IN  Slice(hex, 1, FingerprintLen + 1)

StripNothing(s) == s

RECURSIVE LStrip(_)
LStrip(s) == IF s # <<>> /\ IsSpace(Head(s)) THEN LStrip(Tail(s)) ELSE s

RECURSIVE RStrip(_)
RStrip(s) ==
    IF s # <<>> /\ IsSpace(s[Len(s)]) THEN RStrip(SubSeq(s, 1, Len(s) - 1)) ELSE s

\* str.strip() (line 94).
Strip(s) == RStrip(LStrip(s))

\* Lines 72 and 102: the corpus directories, in the loops' order.
CorpusNames == <<"lexer", "parser", "interpreter">>

WriteNamesShort == <<"lexer", "parser">>

\* Line 102: the directories the write loop goes through.
WriteNames == CorpusNames

NoFiles == [n \in {} |-> <<>>]

MkdirFresh(dir) == [exists |-> TRUE, files |-> NoFiles]

\* Line 73: mkdir(parents=True, exist_ok=True) on a path that is a directory
\* or does not exist.
Mkdir(dir) == IF dir.exists THEN dir ELSE [exists |-> TRUE, files |-> NoFiles]

WriteTextAppend(dir, name, text) ==
    [dir EXCEPT !.files =
        (name :> (IF name \in DOMAIN dir.files THEN dir.files[name] ELSE <<>>) \o text)
            @@ dir.files]

\* Line 105: write_text creates the file or replaces what it holds.
WriteText(dir, name, text) == [dir EXCEPT !.files = (name :> text) @@ dir.files]

TestDirAlwaysExists(dir) == TRUE

\* Line 78: TEST_DIR.exists().
TestDirExists(dir) == dir.exists

EndsWith(s, lit) == Len(s) >= Len(lit) /\ StartsWithAt(s, Len(s) - Len(lit) + 1, lit)

\* Line 82: TEST_DIR.glob("*.rs"), which finds nothing in a missing directory.
Glob(dir) == {n \in DOMAIN dir.files : EndsWith(n, <<".", "r", "s">>)}

\* The order of file names: character by character, a prefix first.
RECURSIVE LexLess(_, _)
LexLess(a, b) ==
    IF b = <<>> THEN FALSE
    ELSE IF a = <<>> THEN TRUE
    ELSE IF Ascii[Head(a)] # Ascii[Head(b)] THEN Ascii[Head(a)] < Ascii[Head(b)]
    ELSE LexLess(Tail(a), Tail(b))

RECURSIVE Sorted(_)
\* Line 82: sorted(...).
Sorted(names) ==
    IF names = {} THEN <<>>
    ELSE LET m == CHOOSE x \in names : \A y \in names \ {x} : LexLess(x, y)
         IN  <<m>> \o Sorted(names \ {m})

IsNewAlways(h, hs) == TRUE

\* Line 97: h not in seen.
IsNew(h, hs) == h \notin hs

Msg(kind, name, n) == [msg |-> kind, name |-> name, n |-> n]

-----------------------------------------------------------------------------
(* The texts of test files: calls in the forms the patterns recognize.     *)

\* What follows the argument in a call of the form pattern k recognizes.
Closing(k) ==
    (IF Patterns[k].raw THEN <<DQ, "#">> ELSE <<DQ>>)
        \o (IF Patterns[k].comma THEN <<",", SP, DQ, "E", DQ, ")">> ELSE <<")">>)

\* A call of the form pattern k recognizes, with `body` between the
\* delimiters of its first argument.
Call(k, body) ==
    [kind |-> k, body |-> body,
     text |-> Opener(Patterns[k]) \o body \o Closing(k)]

Text(its) == Flatten([i \in 1..Len(its) |-> its[i].text])

\* throws_error("bad", "TypeError")
ThrowsBad ==
    Opener(Patterns[3]) \o <<"b", "a", "d">>
        \o <<DQ, ",", SP, DQ, "T", "y", "p", "e", "E", "r", "r", "o", "r", DQ, ")">>

\* Three lines, the second one  "\n"  with its quotes and its backslash.
ThreeLines == <<"a", NL, DQ, BS, "n", DQ, NL, "c">>

-----------------------------------------------------------------------------
(* main(): the files it may find.                                          *)

MaxFiles == 2

\* a.rs, b.rs, ...: the test files, and a file the glob does not select.
RsName(i) == <<Lower[i], ".", "r", "s">>
BakName == <<"a", ".", "r", "s", ".", "b", "a", "k">>

OnePlusOne == <<"1", SP, "+", SP, "1">>

TextEvalX == Call(1, <<"x">>).text
TextBlanks ==
    Call(1, <<"x">>).text \o <<NL>> \o Call(1, <<SP>>).text
        \o Call(5, <<NL, TAB>>).text \o Call(2, <<"y">>).text
TextScenario ==
    Call(1, OnePlusOne).text \o <<NL>> \o Call(2, <<"2">>).text \o <<NL>> \o ThrowsBad
TextNone == <<"f", "n", SP, "f", "(", ")", ";", NL>>
TextDup ==
    Call(2, <<"x">>).text \o Call(1, <<>>).text \o Call(4, <<"y", NL>>).text
TextBak == Call(1, <<"b", "a", "k">>).text

FileTexts == {TextEvalX, TextBlanks, TextScenario, TextNone, TextDup}

\* extract_snippets(text) for each text a test file may hold (worked out
\* once: the function is pure).
Extracted == [text \in FileTexts |-> extract_snippets(text)]

\* What TEST_DIR may be: missing, or a directory with any of the files
\* a.rs, b.rs, ... and possibly a.rs.bak.
TestDirs ==
    {[exists |-> FALSE, files |-> NoFiles]}
        \cup {[exists |-> TRUE, files |-> f] :
                f \in UNION {[ns -> FileTexts] :
                                ns \in SUBSET {RsName(i) : i \in 1..MaxFiles}}}
        \cup {[exists |-> TRUE, files |-> (BakName :> TextBak) @@ f] :
                f \in UNION {[ns -> FileTexts] :
                                ns \in SUBSET {RsName(i) : i \in 1..MaxFiles}}}

\* What a corpus directory may hold before the run: it is missing, it is
\* empty, or it holds a file that is no snippet's (its text is white space),
\* a file whose name is the fingerprint of  x  with another text, and a file
\* an earlier run left for a snippet no test has any more.
Readme == <<"R", "E", "A", "D", "M", "E">>
OldDir ==
    [exists |-> TRUE,
     files |-> (Readme :> <<NL>>)
                 @@ (hash_content(<<"x">>) :> <<"s", "t", "a", "l", "e">>)
                 @@ (hash_content(<<"o", "l", "d">>) :> <<"o", "l", "d">>)]
CorpusDirs ==
    {[exists |-> FALSE, files |-> NoFiles], [exists |-> TRUE, files |-> NoFiles],
     OldDir}

Init ==
    /\ pc = "mkdir"
    /\ test_dir \in TestDirs
    /\ corpus \in [Range(CorpusNames) -> CorpusDirs]
    /\ corpus0 = corpus
    /\ todo = <<>>
    /\ all_snippets = <<>>
    /\ seen = {}
    /\ unique = <<>>
    /\ cursor = [d |-> 1, k |-> 1]
    /\ console = <<>>
    /\ written = {}
    /\ runs = "first"
    /\ items = <<>>
    /\ content = <<>>
    /\ snippets = <<>>
    /\ recode = <<>>

-----------------------------------------------------------------------------
(* main(): its statements.                                                 *)

\* Where main() goes once all_snippets is complete: to the loop of line 92
\* when there is a snippet; else that loop and the loops of lines 102-105
\* have nothing to do and the prints of lines 107-109 are next.
AfterRead(all) == IF all = <<>> THEN "report" ELSE "dedup"

\* Lines 72-73: one turn of the loop that creates the corpus directories.
MkdirStep ==
    /\ pc = "mkdir"
    /\ corpus' = [corpus EXCEPT ![CorpusNames[cursor.d]] = Mkdir(@)]
    /\ IF cursor.d < Len(CorpusNames)
       THEN cursor' = [cursor EXCEPT !.d = @ + 1] /\ pc' = "mkdir"
       ELSE cursor' = [d |-> 1, k |-> 1] /\ pc' = "check"
    /\ UNCHANGED <<test_dir, corpus0, todo, all_snippets, seen, unique, console,
                   written, runs, items, content, snippets, recode>>

\* Lines 75-82: without TEST_DIR, the message and the return; with it, the
\* sorted list of its *.rs files.
CheckTestDir ==
    /\ pc = "check"
    /\ all_snippets' = <<>>
    /\ IF ~TestDirExists(test_dir)
       THEN /\ console' = Append(console, Msg("not_found", <<>>, 0))
            /\ todo' = <<>>
            /\ pc' = "done"
       ELSE /\ console' = console
            /\ todo' = Sorted(Glob(test_dir))
            /\ pc' = IF todo' = <<>> THEN AfterRead(<<>>) ELSE "read"
    /\ UNCHANGED <<test_dir, corpus, corpus0, seen, unique, cursor, written,
                   runs, items, content, snippets, recode>>

\* Lines 82-87: one turn of the loop over the test files.
ReadFile ==
    /\ pc = "read"
    /\ LET name == Head(todo)
           text == test_dir.files[name]
           found == Extracted[text]
       IN  /\ content' = text
           /\ snippets' = found
           /\ all_snippets' = all_snippets \o found
           /\ console' = IF found # <<>>
                         THEN Append(console, Msg("file", name, Len(found)))
                         ELSE console
           /\ todo' = Tail(todo)
           /\ pc' = IF Tail(todo) = <<>> THEN AfterRead(all_snippets') ELSE "read"
    /\ UNCHANGED <<test_dir, corpus, corpus0, seen, unique, cursor, written,
                   runs, items, recode>>

\* Lines 92-99: one turn of the loop that deduplicates.
DedupStep ==
    /\ pc = "dedup"
    /\ LET snippet == all_snippets[cursor.k]
           h == hash_content(snippet)
       IN  IF Strip(snippet) # <<>> /\ IsNew(h, seen)
           THEN seen' = seen \cup {h} /\ unique' = Append(unique, <<h, snippet>>)
           ELSE seen' = seen /\ unique' = unique
    /\ IF cursor.k < Len(all_snippets)
       THEN cursor' = [cursor EXCEPT !.k = @ + 1] /\ pc' = "dedup"
       ELSE /\ cursor' = [d |-> 1, k |-> 1]
            /\ pc' = IF unique' = <<>> THEN "report" ELSE "write"
    /\ UNCHANGED <<test_dir, corpus, corpus0, todo, all_snippets, console,
                   written, runs, items, content, snippets, recode>>

\* Lines 102-105: one write_text.
WriteStep ==
    /\ pc = "write"
    /\ LET d == WriteNames[cursor.d]
           h == unique[cursor.k][1]
           snippet == unique[cursor.k][2]
       IN  /\ corpus' = [corpus EXCEPT ![d] = WriteText(@, h, snippet)]
           /\ written' = written \cup {[dir |-> d, name |-> h, text |-> snippet]}
    /\ IF cursor.k < Len(unique)
       THEN cursor' = [cursor EXCEPT !.k = @ + 1] /\ pc' = "write"
       ELSE IF cursor.d < Len(WriteNames)
            THEN cursor' = [d |-> cursor.d + 1, k |-> 1] /\ pc' = "write"
            ELSE cursor' = [d |-> 1, k |-> 1] /\ pc' = "report"
    /\ UNCHANGED <<test_dir, corpus0, todo, all_snippets, seen, unique, console,
                   runs, items, content, snippets, recode>>

\* Lines 107-109.
Report ==
    /\ pc = "report"
    /\ console' = console \o << Msg("total", <<>>, Len(all_snippets)),
                                Msg("unique", <<>>, Len(unique)),
                                Msg("written_to", <<>>, 0) >>
    /\ pc' = "done"
    /\ UNCHANGED <<test_dir, corpus, corpus0, todo, all_snippets, seen, unique,
                   cursor, written, runs, items, content, snippets, recode>>

\* main() is run once more, on the same test files and on the corpus the
\* first run left.
Rerun ==
    /\ pc = "done"
    /\ runs = "first"
    /\ runs' = "second"
    /\ pc' = "mkdir"
    /\ corpus0' = corpus
    /\ todo' = <<>>
    /\ all_snippets' = <<>>
    /\ seen' = {}
    /\ unique' = <<>>
    /\ cursor' = [d |-> 1, k |-> 1]
    /\ console' = <<>>
    /\ written' = {}
    /\ content' = <<>>
    /\ snippets' = <<>>
    /\ UNCHANGED <<test_dir, corpus, items, recode>>

Next ==
    \/ MkdirStep
    \/ CheckTestDir
    \/ ReadFile
    \/ DedupStep
    \/ WriteStep
    \/ Report
    \/ Rerun

Spec == Init /\ [][Next]_vars

-----------------------------------------------------------------------------
(* The extractor on its own: extract_snippets is a pure function of the    *)
(* text, so it is run on texts put together from calls whose argument     *)
(* is known.                                                               *)

MaxInner == 3
MaxRaw == 3
MaxItems == 3

\* What a plain string literal is made of, as the group (?:[^"\\]|\\.)*
\* reads it: a character that is neither quote nor backslash, or a backslash
\* and the character after it.
EscapeTokens ==
    { <<"x">>, <<"n">>, <<SP>>, <<BS, DQ>>, <<BS, "n">>, <<BS, "t">>,
      <<BS, "r">>, <<BS, BS>> }

PlainBodies == {Flatten(ts) : ts \in TokenSeqs(EscapeTokens, MaxInner)}

\* The text of a raw string r#"..."#: any characters, but not  "#  (which
\* would end the literal).
RawChars == { <<"x">>, <<"n">>, <<DQ>>, <<NL>>, <<BS>>, <<"#">>, <<SP>> }

RawBodies ==
    {b \in {Flatten(ts) : ts \in TokenSeqs(RawChars, MaxRaw)} :
        ~Contains(b, <<DQ, "#">>)}

\* The variables of main() while the extractor runs on its own.
MainIdle ==
    /\ test_dir = "missing"
    /\ corpus = <<>>
    /\ corpus0 = <<>>
    /\ todo = <<>>
    /\ all_snippets = <<>>
    /\ seen = {}
    /\ unique = <<>>
    /\ cursor = 0
    /\ console = <<>>
    /\ written = {}
    /\ runs = "none"

CallInit ==
    /\ pc = "call"
    /\ items \in {<<Call(k, b)>> : k \in 1..3, b \in PlainBodies}
                    \cup {<<Call(k, b)>> : k \in 4..6, b \in RawBodies}
    /\ content = Text(items)
    /\ snippets = <<>>
    /\ recode = <<>>
    /\ MainIdle

\* snippets = extract_snippets(content), as line 84 calls it.
Extract ==
    /\ pc = "call"
    /\ pc' = "returned"
    /\ snippets' = extract_snippets(content)
    /\ UNCHANGED <<test_dir, corpus, corpus0, todo, all_snippets, seen, unique,
                   cursor, console, written, runs, items, content, recode>>

\* The five replacements of lines 23-27 run again on each returned snippet of
\* a plain pattern.
Reapply ==
    /\ pc = "returned"
    /\ \A i \in 1..Len(items) : items[i].kind \in 1..3
    /\ pc' = "reapplied"
    /\ recode' = [k \in 1..Len(snippets) |-> Unescape(snippets[k])]
    /\ UNCHANGED <<test_dir, corpus, corpus0, todo, all_snippets, seen, unique,
                   cursor, console, written, runs, items, content, snippets>>

CallNext == Extract \/ Reapply

SpecCall == CallInit /\ [][CallNext]_vars

-----------------------------------------------------------------------------
(* The extractor on texts made of several calls.                           *)

\* The pieces a text is put together from: calls in the six recognized forms
\* (kind: the pattern that recognizes it) with the snippet each stands for,
\* and text none of the patterns recognizes (kind 0).
Pieces == {
    [kind |-> 1, text |-> Call(1, <<"1", SP, "+", SP, "1">>).text,
     snippet |-> <<"1", SP, "+", SP, "1">>],
    [kind |-> 1, text |-> Call(1, <<"a", BS, DQ, "b">>).text,
     snippet |-> <<"a", DQ, "b">>],
    [kind |-> 2, text |-> Call(2, <<"2">>).text, snippet |-> <<"2">>],
    [kind |-> 3, text |-> ThrowsBad, snippet |-> <<"b", "a", "d">>],
    [kind |-> 4, text |-> Call(4, ThreeLines).text, snippet |-> ThreeLines],
    [kind |-> 5, text |-> Call(5, <<"x">>).text, snippet |-> <<"x">>],
    [kind |-> 6,
     text |-> Opener(Patterns[6]) \o <<"y", DQ, "#", NL, SP, ",", SP, "1", ")">>,
     snippet |-> <<"y">>],
    [kind |-> 0, text |-> <<";", NL>>, snippet |-> <<>>],
    [kind |-> 0,
     text |-> <<"e", "v", "a", "l", "u", "a", "t", "e", "(", DQ, "z", DQ, ")">>,
     snippet |-> <<>>],
    [kind |-> 0, text |-> Opener(Patterns[3]) \o <<"b", "a", "d", DQ, ")">>,
     snippet |-> <<>>] }

ExtractInit ==
    /\ pc = "call"
    /\ items \in TokenSeqs(Pieces, MaxItems)
    /\ content = Text(items)
    /\ snippets = <<>>
    /\ recode = <<>>
    /\ MainIdle

ExtractNext == Extract

SpecExtract == ExtractInit /\ [][ExtractNext]_vars

-----------------------------------------------------------------------------
(* Claims about the extractor.                                             *)

WithoutBackslashes(s) == SelectSeq(s, LAMBDA ch : ch # BS)

\* C4, as stated: the five replacements applied to their own output change
\* nothing, for every plain double-quoted argument.
C4_UnescapeIdempotent ==
    pc = "reapplied" => recode = snippets

\* C4, amended: the five replacements applied to their own output change
\* nothing when the argument holds no escaped backslash; for the argument
\* \\\"  (an escaped backslash, then an escaped quote) the first pass gives
\* \"  and the second pass turns that into a bare quote.
C4_UnescapeIdempotentWithoutEscapedBackslash ==
    pc = "reapplied" =>
        /\ ~Contains(items[1].body, <<BS, BS>>) => recode = snippets
        /\ items[1].body = <<BS, BS, BS, DQ>> =>
              /\ snippets = << <<BS, DQ>> >>
              /\ recode = << <<DQ>> >>

C4_Witness ==
    /\ pc = "reapplied"
    /\ items[1].body = <<BS, DQ, BS, "n">>
    /\ snippets = << <<DQ, NL>> >>
    /\ recode = snippets

\* C5: the snippet of a plain double-quoted call is its argument after the
\* five replacements  \" -> " ,  \n -> newline,  \t -> tab,  \r -> carriage
\* return,  \\ -> \  in this order, and the last of them only removes
\* backslashes: what the first four produced is still there after it.
C5_FiveReplacementsInOrder ==
    (pc \in {"returned", "reapplied"} /\ items[1].kind \in 1..3) =>
        LET r1 == Replace(items[1].body, <<BS, DQ>>, <<DQ>>)
            r2 == Replace(r1, <<BS, "n">>, <<NL>>)
            r3 == Replace(r2, <<BS, "t">>, <<TAB>>)
            r4 == Replace(r3, <<BS, "r">>, <<CR>>)
            r5 == Replace(r4, <<BS, BS>>, <<BS>>)
        IN  /\ snippets = <<r5>>
            /\ WithoutBackslashes(snippets[1]) = WithoutBackslashes(r4)

C5_Witness ==
    /\ pc = "returned"
    /\ items[1].kind = 3
    /\ items[1].body = <<BS, BS, BS, DQ, BS, "t">>
    /\ snippets = << <<BS, DQ, TAB>> >>

\* The snippets a text put together from `its` stands for: by pattern, and
\* within a pattern by position.
Expected(its) ==
    Flatten([p \in 1..6 |->
        LET calls == SelectSeq(its, LAMBDA it : it.kind = p)
        IN  [k \in 1..Len(calls) |-> calls[k].snippet]])

ScenarioPieces ==
    {pc0 \in Pieces : pc0.snippet \in { <<"1", SP, "+", SP, "1">>, <<"2">>,
                                        <<"b", "a", "d">> }}

\* C6: extract_snippets returns one snippet per call in a recognized form,
\* ordered by pattern (eval, eval_result, throws_error plain, then the same
\* three raw) and then by position, with the first argument only of
\* throws_error; a text made of  eval("1 + 1") ,  eval_result("2")  and
\* throws_error("bad", "TypeError") , in any order, gives  1 + 1 , 2 , bad .
C6_SnippetsByPatternThenPosition ==
    pc = "returned" =>
        /\ snippets = Expected(items)
        /\ (Len(items) = 3 /\ {items[i] : i \in 1..3} = ScenarioPieces) =>
              snippets = << <<"1", SP, "+", SP, "1">>, <<"2">>, <<"b", "a", "d">> >>

C6_Witness ==
    /\ pc = "returned"
    /\ Len(items) = 3
    /\ items[1].kind = 3 /\ items[2].kind = 2 /\ items[3].kind = 1
    /\ {items[i] : i \in 1..3} = ScenarioPieces
    /\ snippets = << <<"1", SP, "+", SP, "1">>, <<"2">>, <<"b", "a", "d">> >>

\* C7: the snippet of a raw-string call is the text between  r#"  and  "#
\* character for character, line breaks, quotes and backslashes included.
C7_RawTextVerbatim ==
    (pc = "returned" /\ items[1].kind \in 4..6) => snippets = <<items[1].body>>

C7_Witness ==
    /\ pc = "returned"
    /\ items[1].kind = 6
    /\ items[1].body = <<NL, DQ, NL>>
    /\ snippets = << <<NL, DQ, NL>> >>

-----------------------------------------------------------------------------
(* Claims about main().                                                    *)

\* Empty, or white space only.
Blank(s) == \A i \in 1..Len(s) : IsSpace(s[i])

RsNames == {RsName(i) : i \in 1..MaxFiles} \cap DOMAIN test_dir.files

\* The snippets of the test files, file after file in the order of the names.
InputSnippets ==
    Flatten([i \in 1..MaxFiles |->
        IF RsName(i) \in DOMAIN test_dir.files
        THEN Extracted[test_dir.files[RsName(i)]]
        ELSE <<>>])

\* The snippets of the test files that are not blank, and their fingerprints.
Kept == {sn \in Range(InputSnippets) : ~Blank(sn)}
KeptNames == {hash_content(sn) : sn \in Kept}

Dirs == Range(CorpusNames)

\* C1, as stated: at the end of a run the three corpus directories hold the
\* same files, exactly one per non-empty snippet, named by its fingerprint.
C1_IdenticalCorpusDirectories ==
    pc = "done" =>
        LET nonEmpty == {sn \in Range(InputSnippets) : sn # <<>>}
            expected == [n \in {hash_content(sn) : sn \in nonEmpty} |->
                            CHOOSE sn \in nonEmpty : hash_content(sn) = n]
        IN  \A d \in Dirs : corpus[d].exists /\ corpus[d].files = expected

\* C1, amended: at the end of a run every corpus directory exists and holds,
\* for each snippet that is not blank (empty or white space only), one file
\* named by its fingerprint with the snippet as its text; every other file in
\* it was there before the run, unchanged.  The three directories hold the
\* same files when they did before the run.
C1_CorpusHoldsKeptSnippets ==
    pc = "done" =>
        /\ \A d \in Dirs :
              /\ corpus[d].exists
              /\ \A sn \in Kept :
                    /\ hash_content(sn) \in DOMAIN corpus[d].files
                    /\ corpus[d].files[hash_content(sn)] = sn
              /\ \A n \in DOMAIN corpus[d].files \ KeptNames :
                    /\ n \in DOMAIN corpus0[d].files
                    /\ corpus[d].files[n] = corpus0[d].files[n]
        /\ Cardinality(KeptNames) = Cardinality(Kept)
        /\ (\A d, e \in Dirs : corpus0[d].files = corpus0[e].files)
              => (\A d, e \in Dirs : corpus[d].files = corpus[e].files)

C1_Witness ==
    /\ pc = "done"
    /\ runs = "first"
    /\ Cardinality(Kept) >= 4
    /\ corpus0["lexer"] = OldDir
    /\ ~corpus0["parser"].exists
    /\ corpus["lexer"].files # corpus["parser"].files
    /\ \A sn \in Kept : corpus["interpreter"].files[hash_content(sn)] = sn

\* The first occurrence of every fingerprint among the snippets of `all`
\* that are not blank, in the order of `all`.
FirstOccurrences(all) ==
    LET hs == [i \in 1..Len(all) |-> hash_content(all[i])]
        first(i) == ~Blank(all[i]) /\ \A j \in 1..(i - 1) : hs[j] # hs[i]
        idx == SelectSeq([i \in 1..Len(all) |-> i], first)
    IN  [k \in 1..Len(idx) |-> <<hs[idx[k]], all[idx[k]]>>]

TwoFilesEvalX ==
    /\ RsNames = {RsName(1), RsName(2)}
    /\ test_dir.files[RsName(1)] = TextEvalX
    /\ test_dir.files[RsName(2)] = TextEvalX

\* C2: the snippets are taken file after file in the order of the names; the
\* builder keeps the first occurrence of each fingerprint and drops the later
\* ones; two files that each hold  eval("x")  give one file per directory.
C2_FirstOccurrenceKept ==
    pc \in {"write", "report", "done"} =>
        /\ all_snippets = InputSnippets
        /\ unique = FirstOccurrences(all_snippets)
        /\ (pc = "done" /\ TwoFilesEvalX) =>
              \A d \in Dirs :
                  {w \in written : w.dir = d}
                      = {[dir |-> d, name |-> hash_content(<<"x">>), text |-> <<"x">>]}

C2_Witness ==
    /\ pc = "done"
    /\ TwoFilesEvalX
    /\ all_snippets = << <<"x">>, <<"x">> >>
    /\ Len(unique) = 1
    /\ Cardinality(written) = 3

\* C3: no file a run writes is blank, whichever pattern the snippet came
\* from; a blank file in a corpus directory was there before the run.
C3_NoBlankFileWritten ==
    /\ \A w \in written : ~Blank(w.text)
    /\ \A k \in 1..Len(unique) : ~Blank(unique[k][2])
    /\ \A d \in Dirs : \A n \in DOMAIN corpus[d].files :
          Blank(corpus[d].files[n]) =>
              n \in DOMAIN corpus0[d].files /\ corpus0[d].files[n] = corpus[d].files[n]

C3_Witness ==
    /\ pc = "done"
    /\ written # {}
    /\ {<<>>, <<SP>>, <<NL, TAB>>} \subseteq Range(all_snippets)
    /\ corpus["lexer"].files[hash_content(<<"y", NL>>)] = <<"y", NL>>

\* C8: a second run on the same test files, on the corpus the first run
\* left, ends with every corpus directory as the first run left it.
C8_SecondRunChangesNothing ==
    (runs = "second" /\ pc = "done") => corpus = corpus0

C8_Witness ==
    /\ runs = "second"
    /\ pc = "done"
    /\ Cardinality(written) >= 9
    /\ Readme \in DOMAIN corpus["parser"].files
    /\ corpus = corpus0

\* C9: a run creates the corpus directories that are missing, and a file
\* that was there before the run stays as it was unless its name is the
\* fingerprint of a snippet the run keeps; the run creates or changes no
\* other file.
C9_OtherFilesUntouched ==
    LET keptNames == {unique[k][1] : k \in 1..Len(unique)}
    IN  /\ pc # "mkdir" => \A d \in Dirs : corpus[d].exists
        /\ \A d \in Dirs :
              /\ \A n \in DOMAIN corpus0[d].files \ keptNames :
                    /\ corpus[d].exists
                    /\ n \in DOMAIN corpus[d].files
                    /\ corpus[d].files[n] = corpus0[d].files[n]
              /\ \A n \in DOMAIN corpus[d].files :
                    (n \notin DOMAIN corpus0[d].files
                        \/ corpus[d].files[n] # corpus0[d].files[n])
                    => n \in keptNames

C9_Witness ==
    /\ pc = "done"
    /\ runs = "first"
    /\ ~corpus0["lexer"].exists
    /\ corpus["lexer"].exists
    /\ corpus0["parser"] = OldDir
    /\ corpus["parser"].files[Readme] = <<NL>>
    /\ corpus["parser"].files[hash_content(<<"o", "l", "d">>)] = <<"o", "l", "d">>
    /\ corpus["parser"].files[hash_content(<<"x">>)] = <<"x">>

\* C10: without the test directory main() prints that it was not found and
\* returns; it has read no file and written none, and the files of every
\* corpus directory are as they were.
C10_MissingTestDir ==
    (pc = "done" /\ ~test_dir.exists) =>
        /\ console = << Msg("not_found", <<>>, 0) >>
        /\ all_snippets = <<>>
        /\ content = <<>>
        /\ written = {}
        /\ \A d \in Dirs : corpus[d].exists /\ corpus[d].files = corpus0[d].files

C10_Witness ==
    /\ pc = "done"
    /\ runs = "first"
    /\ ~test_dir.exists
    /\ ~corpus0["lexer"].exists
    /\ corpus0["parser"] = OldDir
    /\ console = << Msg("not_found", <<>>, 0) >>

=============================================================================
